---- MODULE Spec2Model ----
(***************************************************************************)
(* Farkle backend: the persistence model (backend/models.py), the CRUD     *)
(* layer (backend/crud.py) and the request boundary (backend/main.py,      *)
(* backend/schemas.py, backend/database.py) as a state machine.            *)
(*                                                                         *)
(* Tables are sets of rows.  uuid4() is modelled as "an id no row of the   *)
(* table uses"; ids are positive integers.  Timestamps (created_at,        *)
(* played_at) are not modelled: no operation reads them.                   *)
(***************************************************************************)
EXTENDS Integers, Sequences, FiniteSets, TLC

\* ---------------------------------------------------------------- bounds
\* Cap on the rows stored in player_profiles, games and game_results together.
MaxRows == 6

\* ---------------------------------------------------------------- inputs
UserIds == {"u1", "u2"}
DisplayNames == {"Ann"}
\* Payload kinds of create_game_result's ``results``: Pydantic models (what
\* main.py passes) or dict-like objects (crud.py:54, crud.py:70).
Kinds == {"model", "dict"}
\* Sample (score, turns, farkles, won) payloads of one result entry.
EntryStats ==
    { [score |-> 3,  turns |-> 2, farkles |-> 1, won |-> TRUE],
      [score |-> 0,  turns |-> 1, farkles |-> 0, won |-> FALSE],
      [score |-> -1, turns |-> 1, farkles |-> 2, won |-> TRUE] }

\* users, players, games, results: the four tables.  resp: the response of
\* the request being served.  calls: the concurrent create_player requests
\* in flight (used by SpecConc only).
VARIABLES users, players, games, results, resp, calls

vars == <<users, players, games, results, resp, calls>>
db == <<users, players, games, results>>

\* ------------------------------------------------------------ primitives
\* uuid.uuid4(): an id that is not in use.
uuid4(used) == CHOOSE n \in 1..(Cardinality(used) + 1) : n \notin used

\* Session.get(User, user_id): the rows with that primary key (none or one).
get_user(tbl, user_id) == {u \in tbl : u.user_id = user_id}
\* Session.get(PlayerProfile, player_id)
get_player(tbl, player_id) == {p \in tbl : p.player_id = player_id}

UserRow(user_id, login_type) == [user_id |-> user_id, login_type |-> login_type]
PlayerRow(player_id, user_id, display_name) ==
    [player_id |-> player_id, user_id |-> user_id, display_name |-> display_name]
GameRow(game_id, user_id) == [game_id |-> game_id, user_id |-> user_id]
GameResultRow(result_id, game_id, player_id, score, turns, farkles, won) ==
    [result_id |-> result_id, game_id |-> game_id, player_id |-> player_id,
     score |-> score, turns_taken |-> turns, farkles |-> farkles, won |-> won]

NoResp == [op |-> "none", status |-> "none", req |-> <<>>, body |-> <<>>]
Response(op, status, req, body) == [op |-> op, status |-> status, req |-> req, body |-> body]

\* ---------------------------------------------------------- create_player
\* The login classification given to an auto-created user.
anonymous_login_type == "anonymous"

\* db.add(row); db.commit() on a table with a primary key: the INSERT is
\* refused (IntegrityError) when a row with that key is already stored.
commit_user(tbl, row) ==
    IF get_user(tbl, row.user_id) = {}
    THEN [error |-> FALSE, rows |-> tbl \cup {row}]
    ELSE [error |-> TRUE, rows |-> tbl]
commit_player(tbl, row) ==
    IF get_player(tbl, row.player_id) = {}
    THEN [error |-> FALSE, rows |-> tbl \cup {row}]
    ELSE [error |-> TRUE, rows |-> tbl]

\* Mutant of run_create_player: the user is inserted without looking it up.
run_create_player_no_lookup(user_id, display_name) ==
    LET ins == commit_user(users, UserRow(user_id, anonymous_login_type))
        player_id == uuid4({p.player_id : p \in players})
        prof == commit_player(players, PlayerRow(player_id, user_id, display_name))
    IN IF ins.error \/ prof.error
       THEN [status |-> "IntegrityError", player_id |-> 0,
             users |-> users, players |-> players]
       ELSE [status |-> "ok", player_id |-> player_id,
             users |-> ins.rows, players |-> prof.rows]

\* crud.py create_player run from start to end with nothing in between:
\* the outcome and the tables it leaves.
run_create_player(user_id, display_name) ==
    LET found == get_user(users, user_id)
        ins == IF found = {}
               THEN commit_user(users, UserRow(user_id, anonymous_login_type))
               ELSE [error |-> FALSE, rows |-> users]
        player_id == uuid4({p.player_id : p \in players})
        prof == commit_player(players, PlayerRow(player_id, user_id, display_name))
    IN IF ins.error
       THEN [status |-> "IntegrityError", player_id |-> 0,
             users |-> users, players |-> players]
       ELSE IF prof.error
       THEN [status |-> "IntegrityError", player_id |-> 0,
             users |-> ins.rows, players |-> players]
       ELSE [status |-> "ok", player_id |-> player_id,
             users |-> ins.rows, players |-> prof.rows]

create_player(user_id, display_name) ==
    LET out == run_create_player(user_id, display_name)
    IN /\ users' = out.users
       /\ players' = out.players
       /\ resp' = Response("create_player", out.status,
                           [user_id |-> user_id, display_name |-> display_name],
                           [player_id |-> out.player_id])
       /\ UNCHANGED <<games, results>>

\* ----------------------------------------------------- create_game_result
\* One entry of ``results`` as the caller sends it.
EntryInputs(player_ids) ==
    { [player_id |-> p, score |-> s.score, turns |-> s.turns,
       farkles |-> s.farkles, won |-> s.won] :
        p \in player_ids, s \in EntryStats }
ResultLists(player_ids, maxlen) ==
    UNION { [1..n -> EntryInputs(player_ids)] : n \in 0..maxlen }

\* ``getattr(res, name, None) or res.get(name)`` raises AttributeError when
\* res is a Pydantic model (it has no ``get``) and the attribute is falsy;
\* on a dict getattr gives None and res.get(name) gives the value.
field_raises(kind, truthy) == kind = "model" /\ ~truthy

\* Lines 72-76 for one entry: does reading its five fields raise?
entry_raises(kind, res) ==
    \/ field_raises(kind, TRUE)               \* player_id: a non-empty string
    \/ field_raises(kind, res.score # 0)
    \/ field_raises(kind, res.turns # 0)
    \/ field_raises(kind, res.farkles # 0)
    \/ field_raises(kind, res.won)

\* The ``for res in results`` loop from entry i on; pending are the
\* GameResult rows added to the session so far.
RECURSIVE add_results(_, _, _, _, _)
add_results(kind, entries, i, game_id, pending) ==
    IF i > Len(entries)
    THEN [error |-> "none", player_id |-> 0, pending |-> pending]
    ELSE LET res == entries[i]
         IN IF entry_raises(kind, res)
            THEN [error |-> "AttributeError", player_id |-> res.player_id, pending |-> pending]
            ELSE IF get_player(players, res.player_id) = {}
            THEN [error |-> "NotFound", player_id |-> res.player_id, pending |-> pending]
            ELSE LET result_id == uuid4({r.result_id : r \in results \cup pending})
                     row == GameResultRow(result_id, game_id, res.player_id,
                                          res.score, res.turns, res.farkles, res.won)
                 IN add_results(kind, entries, i + 1, game_id, pending \cup {row})

\* database.py get_db: the session is closed in ``finally`` without a commit,
\* so the rows an aborted request added to it are not persisted.
close_uncommitted(pending) == {}

\* crud.py create_game_result: the outcome and the rows it persists.
run_create_game_result(user_id, kind, entries) ==
    IF get_user(users, user_id) = {}
    THEN [status |-> "NotFound", detail |-> "User not found", game_id |-> 0,
          games |-> close_uncommitted({}), results |-> close_uncommitted({})]
    ELSE LET game_id == uuid4({g.game_id : g \in games})
             game == GameRow(game_id, user_id)
             r == add_results(kind, entries, 1, game_id, {})
         IN IF r.error = "none"
            THEN [status |-> "ok", detail |-> "", game_id |-> game_id,
                  games |-> {game}, results |-> r.pending]
            ELSE [status |-> r.error,
                  detail |-> IF r.error = "NotFound" THEN "Player not found" ELSE "",
                  game_id |-> game_id,
                  games |-> close_uncommitted({game}),
                  results |-> close_uncommitted(r.pending)]

create_game_result(user_id, kind, entries) ==
    LET out == run_create_game_result(user_id, kind, entries)
    IN /\ games' = games \cup out.games
       /\ results' = results \cup out.results
       /\ resp' = Response("create_game_result", out.status,
                           [user_id |-> user_id, kind |-> kind, results |-> entries],
                           [game_id |-> out.game_id, detail |-> out.detail])
       /\ UNCHANGED <<users, players>>

\* ------------------------------------------------------------ aggregation
\* SQL NULL / Python None, and a present value.
None == [null |-> TRUE, v |-> 0]
Some(v) == [null |-> FALSE, v |-> v]

RECURSIVE GCD(_, _)
GCD(a, b) == IF b = 0 THEN a ELSE GCD(b, a % b)
Abs(n) == IF n < 0 THEN -n ELSE n
\* The number num/den (den > 0) in lowest terms: the value of a float.
Q(num, den) ==
    LET g == GCD(Abs(num), den)
    IN [num |-> num \div g, den |-> den \div g]
QLeq(a, b) == a.num * b.den <= b.num * a.den

RECURSIVE SumOver(_, _)
SumOver(rows, col) ==
    IF rows = {} THEN 0
    ELSE LET r == CHOOSE x \in rows : TRUE
         IN col[r] + SumOver(rows \ {r}, col)
Column(rows, name) == [r \in rows |-> r[name]]
\* cast(GameResult.won, Integer)
WonAsInteger(rows) == [r \in rows |-> IF r.won THEN 1 ELSE 0]

\* func.count / func.sum / func.avg / func.max over the selected rows:
\* count of no rows is 0, the others are NULL.
sql_count(rows) == Cardinality(rows)
sql_sum(rows, col) == IF rows = {} THEN None ELSE Some(SumOver(rows, col))
sql_avg(rows, col) ==
    IF rows = {} THEN None ELSE Some(Q(SumOver(rows, col), Cardinality(rows)))
sql_max(rows, col) ==
    IF rows = {} THEN None
    ELSE Some(CHOOSE m \in {col[r] : r \in rows} : \A r \in rows : col[r] <= m)

\* ``x or 0`` and int(...) on an integer aggregate.
int_or_0(x) == IF x.null \/ x.v = 0 THEN 0 ELSE x.v
\* ``float(x) if x is not None else 0.0`` and ``float(x or 0.0)``.
float_or_0(x) == IF x.null \/ x.v.num = 0 THEN Q(0, 1) ELSE x.v

\* Mutant of player_results: the filter on player_id is lost.
player_results_unfiltered(player_id) == results

\* .filter(GameResult.player_id == player_id)
player_results(player_id) == {r \in results : r.player_id = player_id}

\* crud.py get_player_stats
run_get_player_stats(player_id) ==
    LET player == get_player(players, player_id)
        rows == player_results(player_id)
    IN IF player = {}
       THEN [status |-> "NotFound", body |-> <<>>]
       ELSE LET p == CHOOSE x \in player : TRUE
            IN [status |-> "ok",
                body |-> [player_id |-> p.player_id,
                          display_name |-> p.display_name,
                          games_played |-> sql_count(rows),
                          wins |-> int_or_0(sql_sum(rows, WonAsInteger(rows))),
                          total_points |-> int_or_0(sql_sum(rows, Column(rows, "score"))),
                          avg_score |-> float_or_0(sql_avg(rows, Column(rows, "score"))),
                          total_farkles |-> int_or_0(sql_sum(rows, Column(rows, "farkles"))),
                          high_score |-> int_or_0(sql_max(rows, Column(rows, "score")))]]

get_player_stats(player_id) ==
    LET out == run_get_player_stats(player_id)
    IN /\ resp' = Response("get_player_stats", out.status, player_id, out.body)
       /\ UNCHANGED db

\* One row of the grouped aggregate query of get_leaderboard / get_user_players.
AggregateRow(p) ==
    LET rows == {r \in results : r.player_id = p.player_id}
    IN [player_id |-> p.player_id, display_name |-> p.display_name,
        wins |-> sql_sum(rows, WonAsInteger(rows)),
        avg_score |-> sql_avg(rows, Column(rows, "score")),
        total_points |-> sql_sum(rows, Column(rows, "score"))]

\* The dict built from a row (crud.py:157-163, 193-199).
PlayerInfoEntry(row) ==
    [player_id |-> row.player_id, display_name |-> row.display_name,
     wins |-> int_or_0(row.wins),
     avg_score |-> float_or_0(row.avg_score),
     total_points |-> int_or_0(row.total_points)]

\* The orders in which ``.all()`` may hand back a set of rows.
FetchOrders(rows) ==
    {f \in [1..Cardinality(rows) -> rows] : \A i, j \in DOMAIN f : f[i] = f[j] => i = j}

\* ``getattr(row, sort) or 0`` as a number.
sort_key(row, sort) ==
    IF sort = "avg_score" THEN float_or_0(row.avg_score)
    ELSE Q(int_or_0(row[sort]), 1)

\* sorted(seq, key=..., reverse=True): a stable sort into descending order
\* (insertion of each element behind the elements that are not smaller).
RECURSIVE sorted_reverse(_, _, _)
\* Mutant of Insert: the row is appended, whatever its key.
Insert_unsorted(out, row, sort) == Append(out, row)

Insert(out, row, sort) ==
    LET k == sort_key(row, sort)
        behind == {i \in 1..Len(out) : QLeq(k, sort_key(out[i], sort))}
        at == IF behind = {} THEN 0 ELSE CHOOSE i \in behind : \A j \in behind : j <= i
    IN SubSeq(out, 1, at) \o <<row>> \o SubSeq(out, at + 1, Len(out))
sorted_reverse(seq, sort, out) ==
    IF seq = <<>> THEN out
    ELSE sorted_reverse(Tail(seq), sort, Insert(out, Head(seq), sort))

\* seq[:limit]
take(seq, limit) == SubSeq(seq, 1, IF limit < Len(seq) THEN limit ELSE Len(seq))

\* The inner join of get_leaderboard: players with at least one GameResult.
leaderboard_rows ==
    {AggregateRow(p) : p \in {q \in players : \E r \in results : r.player_id = q.player_id}}

\* crud.py get_leaderboard, the rows fetched in order ``fetched``.
run_get_leaderboard(fetched, sort, limit) ==
    LET sorted_list == take(sorted_reverse(fetched, sort, <<>>), limit)
    IN [i \in 1..Len(sorted_list) |-> PlayerInfoEntry(sorted_list[i])]

get_leaderboard(sort, limit) ==
    \E fetched \in FetchOrders(leaderboard_rows) :
        /\ resp' = Response("get_leaderboard", "ok", [sort |-> sort, limit |-> limit],
                            run_get_leaderboard(fetched, sort, limit))
        /\ UNCHANGED db

\* Mutant of user_players_rows: an inner join, as in get_leaderboard.
user_players_rows_inner(user_id) ==
    {AggregateRow(p) : p \in {q \in players : /\ q.user_id = user_id
                                               /\ \E r \in results : r.player_id = q.player_id}}

\* The outer join of get_user_players: every player of the user.
user_players_rows(user_id) == {AggregateRow(p) : p \in {q \in players : q.user_id = user_id}}

\* crud.py get_user_players, the rows fetched in order ``fetched``.
run_get_user_players(user_id, fetched) ==
    IF get_user(users, user_id) = {}
    THEN [status |-> "NotFound", body |-> <<>>]
    ELSE [status |-> "ok", body |-> [i \in 1..Len(fetched) |-> PlayerInfoEntry(fetched[i])]]

get_user_players(user_id) ==
    \E fetched \in FetchOrders(user_players_rows(user_id)) :
        LET out == run_get_user_players(user_id, fetched)
        IN /\ resp' = Response("get_user_players", out.status, user_id, out.body)
           /\ UNCHANGED db

\* --------------------------------------------------------- request cycle
\* The request is over: the response has gone to the client and get_db has
\* closed the session.
finish_request ==
    /\ resp # NoResp
    /\ resp' = NoResp
    /\ UNCHANGED db

\* Sort keys the boundary lets through, and the limits it accepts.
SortKeys == {"avg_score", "wins", "total_points"}
LimitMin == 1
LimitMax == 100
Limits == (LimitMin..Cardinality(players)) \cup {LimitMin, LimitMax}

\* Rows stored, and the player ids a request may name: the ids in use and
\* one that is not.
StoredRows == Cardinality(players) + Cardinality(games) + Cardinality(results)
RequestPlayerIds == 1..(Cardinality(players) + 1)

\* The paths main.py registers a handler for.
Routes == {"/create-player", "/game-result", "/player-stats", "/leaderboard", "/user-players"}

\* POST /delete-player (tests/test_endpoints.py:21): the application has no
\* such route and crud.py no function deleting a player, so the router
\* answers 404 and no table changes.
delete_player(player_id) ==
    /\ "/delete-player" \notin Routes
    /\ resp' = Response("delete_player", "NoRoute", [player_id |-> player_id], <<>>)
    /\ UNCHANGED db

\* ------------------------------------------- concurrent create_player calls
NumCalls == 2
CallIds == 1..NumCalls
IdleCall == [pc |-> "idle", user_id |-> "", display_name |-> "", status |-> "none", player_id |-> 0]

\* A request arrives (main.py create_player_endpoint).
cp_start(c, user_id, display_name) ==
    /\ calls[c].pc = "idle"
    /\ calls' = [calls EXCEPT ![c] = [IdleCall EXCEPT !.pc = "get_user",
                                       !.user_id = user_id, !.display_name = display_name]]
    /\ UNCHANGED <<db, resp>>

\* crud.py:27-28: user = db.get(User, user_id); if not user
cp_get_user(c) ==
    /\ calls[c].pc = "get_user"
    /\ calls' = [calls EXCEPT ![c].pc =
                    IF get_user(users, calls[c].user_id) = {} THEN "add_user" ELSE "add_profile"]
    /\ UNCHANGED <<db, resp>>

\* crud.py:29-32: db.add(user); db.commit().  The exception of a refused
\* INSERT leaves create_player: the request fails.
cp_commit_user(c) ==
    LET ins == commit_user(users, UserRow(calls[c].user_id, anonymous_login_type))
    IN /\ calls[c].pc = "add_user"
       /\ users' = ins.rows
       /\ calls' = [calls EXCEPT ![c].pc = IF ins.error THEN "done" ELSE "add_profile",
                                 ![c].status = IF ins.error THEN "IntegrityError" ELSE "none"]
       /\ UNCHANGED <<players, games, results, resp>>

\* crud.py:34-43: the profile is added and committed, its id returned.
cp_commit_profile(c) ==
    LET player_id == uuid4({p.player_id : p \in players})
        prof == commit_player(players, PlayerRow(player_id, calls[c].user_id, calls[c].display_name))
    IN /\ calls[c].pc = "add_profile"
       /\ players' = prof.rows
       /\ calls' = [calls EXCEPT ![c].pc = "done",
                                 ![c].status = IF prof.error THEN "IntegrityError" ELSE "ok",
                                 ![c].player_id = IF prof.error THEN 0 ELSE player_id]
       /\ UNCHANGED <<users, games, results, resp>>

\* Storage failure: the commit raises because the store is unavailable, and
\* the exception leaves create_player.  On crud.py:31 no row has been
\* written yet; on crud.py:41 the User committed on crud.py:31 stays, since
\* only the profile's own transaction is lost.
cp_user_storage_failure(c) ==
    /\ calls[c].pc = "add_user"
    /\ calls' = [calls EXCEPT ![c].pc = "done", ![c].status = "StorageFailure"]
    /\ UNCHANGED <<db, resp>>

cp_profile_storage_failure(c) ==
    /\ calls[c].pc = "add_profile"
    /\ calls' = [calls EXCEPT ![c].pc = "done", ![c].status = "StorageFailure"]
    /\ UNCHANGED <<db, resp>>

\* main.py:44: the endpoint hands back {"player_id": ...}, or the error.
cp_return(c) ==
    /\ calls[c].pc = "done"
    /\ calls' = [calls EXCEPT ![c].pc = "returned"]
    /\ UNCHANGED <<db, resp>>

\* ----------------------------------------------------------- specifications
Init ==
    /\ users = {}
    /\ players = {}
    /\ games = {}
    /\ results = {}
    /\ resp = NoResp
    /\ calls = [c \in CallIds |-> IdleCall]

\* Requests served one at a time, each handler run from start to end.
Next ==
    \/ /\ resp = NoResp
       /\ StoredRows < MaxRows
       /\ \E u \in UserIds, n \in DisplayNames : create_player(u, n)
       /\ UNCHANGED calls
    \/ /\ resp = NoResp
       /\ StoredRows < MaxRows
       /\ \E u \in UserIds, k \in Kinds :
            \E e \in ResultLists(RequestPlayerIds, MaxRows - StoredRows - 1) :
                create_game_result(u, k, e)
       /\ UNCHANGED calls
    \/ /\ resp = NoResp
       /\ \E p \in RequestPlayerIds : get_player_stats(p)
       /\ UNCHANGED calls
    \/ /\ resp = NoResp
       /\ \E s \in SortKeys, l \in Limits : get_leaderboard(s, l)
       /\ UNCHANGED calls
    \/ /\ resp = NoResp
       /\ \E u \in UserIds : get_user_players(u)
       /\ UNCHANGED calls
    \/ /\ resp = NoResp
       /\ \E p \in RequestPlayerIds : delete_player(p)
       /\ UNCHANGED calls
    \/ finish_request /\ UNCHANGED calls

Spec == Init /\ [][Next]_vars

\* create_player requests served concurrently, interleaved at their
\* database round trips.
NextConc ==
    \/ \E c \in CallIds, u \in UserIds, n \in DisplayNames : cp_start(c, u, n)
    \/ \E c \in CallIds : cp_get_user(c)
    \/ \E c \in CallIds : cp_commit_user(c)
    \/ \E c \in CallIds : cp_commit_profile(c)
    \/ \E c \in CallIds : cp_return(c)

SpecConc == Init /\ [][NextConc]_vars

\* The same calls against a store whose commits may fail.
NextFail ==
    \/ \E c \in CallIds, u \in UserIds, n \in DisplayNames : cp_start(c, u, n)
    \/ \E c \in CallIds : cp_get_user(c)
    \/ \E c \in CallIds : cp_commit_user(c)
    \/ \E c \in CallIds : cp_user_storage_failure(c)
    \/ \E c \in CallIds : cp_commit_profile(c)
    \/ \E c \in CallIds : cp_profile_storage_failure(c)
    \/ \E c \in CallIds : cp_return(c)

SpecFail == Init /\ [][NextFail]_vars
\* ------------------------------------------------------------------ claims
\* Helpers of the statements below, written from the claims' words.
IsStep(op) == resp.op = "none" /\ resp'.op = op
UserExists(user_id) == \E u \in users : u.user_id = user_id
PlayerExists(player_id) == \E p \in players : p.player_id = player_id
ResultsOf(player_id) == {r \in results : r.player_id = player_id}
RECURSIVE Total(_, _)
Total(rows, name) ==
    IF rows = {} THEN 0
    ELSE LET r == CHOOSE x \in rows : \A y \in rows : x.result_id <= y.result_id
         IN r[name] + Total(rows \ {r}, name)
Matches(row, entry) ==
    /\ row.player_id = entry.player_id
    /\ row.score = entry.score
    /\ row.turns_taken = entry.turns
    /\ row.farkles = entry.farkles
    /\ row.won = entry.won

\* C1: a submit-game-result call whose user id does not exist, or in which
\* some entry's player id does not exist (at any position), fails with
\* NotFound and leaves the Game and GameResult rows exactly as they were.
C1_InvalidFailsNotFoundNothingPersisted ==
    [][ (/\ IsStep("create_game_result")
         /\ \/ ~UserExists(resp'.req.user_id)
            \/ \E i \in DOMAIN resp'.req.results :
                  ~PlayerExists(resp'.req.results[i].player_id))
        => (/\ resp'.status = "NotFound"
            /\ games' = games
            /\ results' = results) ]_vars

\* C2: a submit-game-result call whose user exists and whose entries all
\* name existing players (scores, turns, farkles any non-negative integers,
\* win flag true or false) returns a game id and persists exactly one new
\* Game and one new GameResult per entry, carrying the entry's values.
C2_ValidSubmissionPersistsAll ==
    [][ (/\ IsStep("create_game_result")
         /\ UserExists(resp'.req.user_id)
         /\ \A i \in DOMAIN resp'.req.results :
               /\ PlayerExists(resp'.req.results[i].player_id)
               /\ resp'.req.results[i].score >= 0
               /\ resp'.req.results[i].turns >= 0
               /\ resp'.req.results[i].farkles >= 0)
        => (/\ resp'.status = "ok"
            /\ games \subseteq games'
            /\ games' \ games = {GameRow(resp'.body.game_id, resp'.req.user_id)}
            /\ results \subseteq results'
            /\ \E f \in FetchOrders(results' \ results) :
                  /\ Len(f) = Len(resp'.req.results)
                  /\ \A i \in DOMAIN f :
                        /\ f[i].game_id = resp'.body.game_id
                        /\ Matches(f[i], resp'.req.results[i])) ]_vars

\* C3: there is at most one User per user id; a register-player call for a
\* user id without a User adds exactly one User (login type "anonymous") and
\* exactly one PlayerProfile; for a user id that has a User it adds no User
\* and exactly one PlayerProfile whose id differs from every existing one.
C3_RegisterPlayerRows ==
    [][ IsStep("create_player")
        => LET user_id == resp'.req.user_id
           IN /\ players \subseteq players'
              /\ \E p \in players' \ players :
                    /\ players' \ players = {p}
                    /\ p.user_id = user_id
                    /\ p.display_name = resp'.req.display_name
                    /\ p.player_id = resp'.body.player_id
                    /\ \A q \in players : q.player_id # p.player_id
              /\ users \subseteq users'
              /\ users' \ users = IF UserExists(user_id) THEN {}
                                  ELSE {[user_id |-> user_id, login_type |-> "anonymous"]}
              /\ \A u, v \in users' : u.user_id = v.user_id => u = v ]_vars
\* Reached: a second player has been registered for a user that already
\* had one.
C3_Witness ==
    /\ resp.op = "create_player"
    /\ resp.status = "ok"
    /\ \E p, q \in players :
          /\ p.player_id = resp.body.player_id
          /\ q.player_id # p.player_id
          /\ q.user_id = p.user_id
          /\ p.user_id = resp.req.user_id

\* C4: two concurrent register-player calls for the same, previously unknown
\* user id both return a player id, however they interleave, and leave
\* exactly one User with that id and two PlayerProfiles owned by it.
C4_ConcurrentRegisterBothSucceed ==
    \A c, d \in CallIds :
        (/\ c # d
         /\ calls[c].pc \in {"done", "returned"}
         /\ calls[d].pc \in {"done", "returned"}
         /\ calls[c].user_id = calls[d].user_id)
        => /\ calls[c].status = "ok"
           /\ calls[d].status = "ok"
           /\ calls[c].player_id # calls[d].player_id
           /\ Cardinality({u \in users : u.user_id = calls[c].user_id}) = 1
           /\ Cardinality({p \in players : p.user_id = calls[c].user_id}) = 2

\* C5: for every Game and every player id, at most one GameResult of that
\* Game references that player id.
C5_OneResultPerGameAndPlayer ==
    \A r1, r2 \in results :
        (r1.game_id = r2.game_id /\ r1.player_id = r2.player_id) => r1 = r2
\* C6: get-player-stats for an existing player reports, over exactly the
\* GameResults referencing that player, their count, the count of won ones,
\* the sums of scores and of farkles, the maximum score and the mean score
\* total_points / games_played; with no GameResults all of these are zero;
\* for a player id without a PlayerProfile it fails with NotFound.
C6_PlayerStats ==
    resp.op = "get_player_stats"
    => LET rows == ResultsOf(resp.req)
           b == resp.body
       IN IF ~PlayerExists(resp.req)
          THEN resp.status = "NotFound"
          ELSE /\ resp.status = "ok"
               /\ b.player_id = resp.req
               /\ b.games_played = Cardinality(rows)
               /\ b.wins = Cardinality({r \in rows : r.won})
               /\ b.total_points = Total(rows, "score")
               /\ b.total_farkles = Total(rows, "farkles")
               /\ b.avg_score.den > 0
               /\ b.avg_score.num * b.games_played = b.total_points * b.avg_score.den
               /\ IF rows = {}
                  THEN b.high_score = 0 /\ b.avg_score.num = 0
                  ELSE /\ \E r \in rows : r.score = b.high_score
                       /\ \A r \in rows : r.score <= b.high_score
\* Reached: stats of a player with two results whose mean is no integer,
\* while another player has results too.
C6_Witness ==
    /\ resp.op = "get_player_stats"
    /\ resp.status = "ok"
    /\ resp.body.games_played = 2
    /\ resp.body.avg_score.den = 2
    /\ resp.body.wins = 1
    /\ \E r \in results : r.player_id # resp.req

\* The aggregate the claim orders players by, as a fraction <<a, b>> = a/b.
ClaimKey(player_id, sort) ==
    LET rows == ResultsOf(player_id)
    IN CASE sort = "wins" -> <<Cardinality({r \in rows : r.won}), 1>>
         [] sort = "total_points" -> <<Total(rows, "score"), 1>>
         [] sort = "avg_score" -> <<Total(rows, "score"), Cardinality(rows)>>
FracLeq(x, y) == x[1] * y[2] <= y[1] * x[2]
Qualifying == {p.player_id : p \in {q \in players : ResultsOf(q.player_id) # {}}}

\* C7: for every sort key and limit in 1..100, get-leaderboard returns a
\* list without repeated players, of length min(limit, number of players
\* with at least one GameResult), holding only such players, in
\* non-increasing order of the key, and every qualifying player left out
\* has a key no greater than that of every player returned.
C7_Leaderboard ==
    resp.op = "get_leaderboard"
    => LET b == resp.body
           sort == resp.req.sort
           limit == resp.req.limit
           n == Cardinality(Qualifying)
           listed == {b[i].player_id : i \in DOMAIN b}
       IN /\ resp.status = "ok"
          /\ \A i, j \in DOMAIN b : b[i].player_id = b[j].player_id => i = j
          /\ Len(b) = IF limit < n THEN limit ELSE n
          /\ listed \subseteq Qualifying
          /\ \A i, j \in DOMAIN b :
                i < j => FracLeq(ClaimKey(b[j].player_id, sort), ClaimKey(b[i].player_id, sort))
          /\ \A q \in Qualifying \ listed : \A i \in DOMAIN b :
                FracLeq(ClaimKey(q, sort), ClaimKey(b[i].player_id, sort))
\* Reached: a leaderboard by wins cut to one row, the player left out
\* having strictly fewer wins than the one returned, and more points.
C7_Witness ==
    /\ resp.op = "get_leaderboard"
    /\ resp.req.sort = "wins"
    /\ resp.req.limit = 1
    /\ Len(resp.body) = 1
    /\ \E q \in Qualifying :
          /\ q # resp.body[1].player_id
          /\ ~FracLeq(ClaimKey(resp.body[1].player_id, "wins"), ClaimKey(q, "wins"))
          /\ ClaimKey(q, "total_points")[1] > ClaimKey(resp.body[1].player_id, "total_points")[1]

\* C8: list-user-players fails with NotFound when the user id has no User;
\* otherwise it returns exactly one summary per PlayerProfile of that user,
\* none for players of other users, and a player without GameResults is
\* listed with wins = 0, avg_score = 0 and total_points = 0.
C8_UserPlayers ==
    resp.op = "get_user_players"
    => LET b == resp.body
           owned == {p.player_id : p \in {q \in players : q.user_id = resp.req}}
       IN IF ~UserExists(resp.req)
          THEN resp.status = "NotFound"
          ELSE /\ resp.status = "ok"
               /\ \A p \in owned : Cardinality({i \in DOMAIN b : b[i].player_id = p}) = 1
               /\ \A i \in DOMAIN b : b[i].player_id \in owned
               /\ \A i \in DOMAIN b :
                     ResultsOf(b[i].player_id) = {}
                     => b[i].wins = 0 /\ b[i].avg_score.num = 0 /\ b[i].total_points = 0
\* Reached: the list of a user whose only player has no results, while a
\* player of another user has some.
C8_Witness ==
    /\ resp.op = "get_user_players"
    /\ resp.status = "ok"
    /\ Len(resp.body) = 1
    /\ ResultsOf(resp.body[1].player_id) = {}
    /\ \E p \in players : p.user_id # resp.req /\ ResultsOf(p.player_id) # {}

\* C9: deleting an existing PlayerProfile through delete-player succeeds,
\* and afterwards every GameResult that referenced the player still exists
\* with a null player reference (0 here) and its other fields unchanged;
\* no GameResult is removed.
C9_DeletePlayerKeepsResults ==
    [][ (IsStep("delete_player") /\ PlayerExists(resp'.req.player_id))
        => (/\ resp'.status = "ok"
            /\ \A p \in players' : p.player_id # resp'.req.player_id
            /\ Cardinality(results') = Cardinality(results)
            /\ \A r \in results :
                  IF r.player_id = resp'.req.player_id
                  THEN [r EXCEPT !.player_id = 0] \in results'
                  ELSE r \in results') ]_vars

\* C10: every persisted GameResult has score >= 0, turns taken >= 0 and
\* farkle count >= 0.
C10_NonNegativeResults ==
    \A r \in results : r.score >= 0 /\ r.turns_taken >= 0 /\ r.farkles >= 0
\* C11: register-player is all-or-nothing: a call for a previously unknown
\* user id that fails (storage failure while writing the PlayerProfile)
\* leaves the store as it was before the call.  The store starts empty, so
\* once every call made for a user id has failed, no User with that id is
\* stored.
CallFailed(c) == calls[c].pc \in {"done", "returned"} /\ calls[c].status # "ok"
C11_FailedRegisterPersistsNothing ==
    \A c \in CallIds :
        (/\ CallFailed(c)
         /\ \A d \in CallIds : calls[d].user_id = calls[c].user_id => CallFailed(d))
        => ~UserExists(calls[c].user_id)
====
